---- MODULE Spec2Model ----
(***************************************************************************)
(* decode-hash.py: a loop over a list of hash strings that parses the      *)
(* first 16, 8 and 6 characters of each as base-16 integers and prints a   *)
(* five-line block per hash.                                               *)
(*                                                                         *)
(* A Python str is modelled as a sequence of characters, each character a  *)
(* one-character TLA+ string.  A Python int is unbounded, so it is         *)
(* modelled in sign-magnitude form: [neg |-> BOOLEAN, mag |-> limbs], the  *)
(* magnitude a little-endian sequence of limbs in base LimbBase without    *)
(* high zero limbs (zero is the empty sequence).                           *)
(***************************************************************************)
EXTENDS Integers, Sequences, FiniteSets, TLC

VARIABLES hashes, idx, h, first_8, first_4, first_3, out, pc

vars == <<hashes, idx, h, first_8, first_4, first_3, out, pc>>

----------------------------------------------------------------------------
(* Bounds of the model.                                                    *)

\* longest generated input string (the slices reach 16 characters)
MaxLen == 17
\* longest generated list of hashes
MaxList == 3

----------------------------------------------------------------------------
(* Program constants.                                                      *)

\* int(..., 16)
Base == 16
\* h[:16], h[:8], h[:6]
Slice8 == 16
Slice4 == 8
Slice3 == 6

\* the three literals of the list
Hash1 ==
    <<"0","0","0","0","0","0","6","c","3","a","4","3","6","5","0","0",
      "b","2","0","c","0","c","8","0","f","5","d","a","e","6","6","e",
      "1","2","3","3","d","8","4","d","a","4","d","d","d","5","a","f",
      "2","9","8","7","c","f","d","b","1","5","6","2","e","b","9","f">>
Hash2 ==
    <<"0","0","0","0","0","1","0","2","1","4","e","f","c","2","d","0",
      "f","0","9","b","4","b","0","b","c","e","1","f","1","f","5","a",
      "f","7","d","f","4","2","8","4","7","1","0","3","1","8","8","6",
      "b","f","f","7","3","1","1","9","c","4","5","c","d","c","b","c">>
Hash3 ==
    <<"0","0","0","0","0","2","d","7","a","7","e","5","d","7","b","b",
      "0","5","b","4","3","c","2","1","a","e","f","3","8","5","b","9",
      "3","4","c","6","1","d","3","a","7","6","0","5","c","0","8","2",
      "9","c","3","5","d","e","f","b","4","9","0","a","6","5","1","c">>

EmbeddedHashes == <<Hash1, Hash2, Hash3>>

----------------------------------------------------------------------------
(* Python int: unbounded sign-magnitude integers.                          *)

LimbBase == 2^16

Zero == [neg |-> FALSE, mag |-> <<>>]

\* drop high zero limbs
RECURSIVE Norm(_)
Norm(mag) ==
    IF mag = <<>> THEN <<>>
    ELSE IF mag[Len(mag)] = 0 THEN Norm(SubSeq(mag, 1, Len(mag) - 1))
    ELSE mag

\* MulAdd with the carry out of a limb dropped: a fixed-width accumulator
RECURSIVE MulAddNoCarry(_, _, _)
MulAddNoCarry(mag, m, c) ==
    IF mag = <<>> THEN (IF c = 0 THEN <<>> ELSE <<c>>)
    ELSE LET t == Head(mag) * m + c
         IN  <<t % LimbBase>> \o MulAddNoCarry(Tail(mag), m, 0)

\* mag * m + c, for small m and c
RECURSIVE MulAdd(_, _, _)
MulAdd(mag, m, c) ==
    IF mag = <<>> THEN (IF c = 0 THEN <<>> ELSE <<c>>)
    ELSE LET t == Head(mag) * m + c
         IN  <<t % LimbBase>> \o MulAdd(Tail(mag), m, t \div LimbBase)

\* quotient and remainder of mag by a small d
RECURSIVE DivMod(_, _)
DivMod(mag, d) ==
    IF mag = <<>> THEN [q |-> <<>>, r |-> 0]
    ELSE LET hi == DivMod(Tail(mag), d)
             t  == hi.r * LimbBase + Head(mag)
         IN  [q |-> Norm(<<t \div d>> \o hi.q), r |-> t % d]

\* a magnitude with its sign; minus zero is zero
MkInt(neg, mag) == [neg |-> neg /\ mag # <<>>, mag |-> mag]

----------------------------------------------------------------------------
(* Characters.                                                             *)

DecDigits == <<"0","1","2","3","4","5","6","7","8","9">>
LowerCase == <<"a","b","c","d","e","f","g","h","i","j","k","l","m",
               "n","o","p","q","r","s","t","u","v","w","x","y","z">>
UpperCase == <<"A","B","C","D","E","F","G","H","I","J","K","L","M",
               "N","O","P","Q","R","S","T","U","V","W","X","Y","Z">>

IndexOf(seq, c) == CHOOSE i \in 1..Len(seq) : seq[i] = c
Occurs(seq, c) == \E i \in 1..Len(seq) : seq[i] = c

\* ARABIC-INDIC DIGIT THREE, one character outside ASCII that str accepts
\* as a decimal digit
ArabicThree == "U+0663"
\* LATIN SMALL LETTER E WITH ACUTE, one character outside ASCII that is
\* neither a digit nor white space
EAcute == "U+00E9"

\* str.isspace() characters the model knows
WhiteSpace == {" ", "\t"}

\* int(str, base) first maps decimal digits and white space outside ASCII
\* to ASCII and every other character outside ASCII to "?"
ToAscii(c) ==
    IF c = ArabicThree THEN "3"
    ELSE IF c = EAcute THEN "?"
    ELSE IF c \in WhiteSpace THEN " "
    ELSE c

\* DigitValue with the letters one too high: a is 11
DigitValueLettersFrom11(c) ==
    IF Occurs(DecDigits, c) THEN IndexOf(DecDigits, c) - 1
    ELSE IF Occurs(LowerCase, c) THEN IndexOf(LowerCase, c) + 10
    ELSE IF Occurs(UpperCase, c) THEN IndexOf(UpperCase, c) + 10
    ELSE 37

\* the digit table of the integer parser: 0-9, a-z and A-Z are 0..35,
\* every other character is 37
DigitValue(c) ==
    IF Occurs(DecDigits, c) THEN IndexOf(DecDigits, c) - 1
    ELSE IF Occurs(LowerCase, c) THEN IndexOf(LowerCase, c) + 9
    ELSE IF Occurs(UpperCase, c) THEN IndexOf(UpperCase, c) + 9
    ELSE 37

----------------------------------------------------------------------------
(* int(s, 16): the integer parser.                                         *)

\* the character at position i, "" past the end of the string
At(s, i) == IF i \in 1..Len(s) THEN s[i] ELSE ""

RECURSIVE SkipSpace(_, _)
SkipSpace(s, i) ==
    IF At(s, i) = " " THEN SkipSpace(s, i + 1) ELSE i

\* ScanDigits with the digit test off by one: a digit equal to the base
\* is taken
RECURSIVE ScanDigitsUpToBase(_, _, _, _, _)
ScanDigitsUpToBase(s, base, i, prev, mag) ==
    LET c == At(s, i) IN
    IF c = "_"
    THEN IF prev = "_" THEN [ok |-> FALSE, pos |-> i, mag |-> mag]
         ELSE ScanDigitsUpToBase(s, base, i + 1, c, mag)
    ELSE IF DigitValue(c) <= base
    THEN ScanDigitsUpToBase(s, base, i + 1, c,
                            MulAdd(mag, base, DigitValue(c)))
    ELSE [ok |-> prev # "_", pos |-> i, mag |-> mag]

\* the run of digits and single underscores from position i on; prev is
\* the character before i within the run, mag the value so far
RECURSIVE ScanDigits(_, _, _, _, _)
ScanDigits(s, base, i, prev, mag) ==
    LET c == At(s, i) IN
    IF c = "_"
    THEN IF prev = "_" THEN [ok |-> FALSE, pos |-> i, mag |-> mag]
         ELSE ScanDigits(s, base, i + 1, c, mag)
    ELSE IF DigitValue(c) < base
    THEN ScanDigits(s, base, i + 1, c, MulAdd(mag, base, DigitValue(c)))
    ELSE [ok |-> prev # "_", pos |-> i, mag |-> mag]

\* IsNegative with either sign character taken as a minus
IsNegativeAnySign(c) == c \in {"+", "-"}

\* the sign character that negates the value
IsNegative(c) == c = "-"

\* the outcome of a failed parse: int raises ValueError
ValueError == [ok |-> FALSE, val |-> Zero]

\* int(s, base) for base 16: optional white space, an optional sign, an
\* optional 0x or 0X with one optional underscore after it, digits with
\* single underscores between them, optional white space, end of string
int(s, base) ==
    LET a  == [k \in 1..Len(s) |-> ToAscii(s[k])]
        p0 == SkipSpace(a, 1)
        p1 == IF At(a, p0) \in {"+", "-"} THEN p0 + 1 ELSE p0
        px == base = 16 /\ At(a, p1) = "0" /\ At(a, p1 + 1) \in {"x", "X"}
        p2 == IF px THEN (IF At(a, p1 + 2) = "_" THEN p1 + 3 ELSE p1 + 2)
              ELSE p1
        r  == ScanDigits(a, base, p2, "", <<>>)
    IN  IF At(a, p2) = "_" THEN ValueError
        ELSE IF ~r.ok \/ r.pos = p2 THEN ValueError
        ELSE IF SkipSpace(a, r.pos) <= Len(a) THEN ValueError
        ELSE [ok |-> TRUE, val |-> MkInt(IsNegative(At(a, p0)), r.mag)]

\* Prefix one character short: s[:n-1]
PrefixOneShort(s, n) == SubSeq(s, 1, IF n - 1 < Len(s) THEN n - 1 ELSE Len(s))

\* s[:n]
Prefix(s, n) == SubSeq(s, 1, IF n < Len(s) THEN n ELSE Len(s))

----------------------------------------------------------------------------
(* f"{n}": the decimal text of an integer.                                 *)

RECURSIVE DecimalDigits(_)
DecimalDigits(mag) ==
    IF mag = <<>> THEN <<>>
    ELSE LET d == DivMod(mag, 10)
         IN  DecimalDigits(d.q) \o <<DecDigits[d.r + 1]>>

str(n) ==
    IF n.mag = <<>> THEN <<"0">>
    ELSE (IF n.neg THEN <<"-">> ELSE <<>>) \o DecimalDigits(n.mag)

\* the four f-strings of the print block
HashLine(s) == <<"H","a","s","h",":"," ">> \o s
First3Line(n) ==
    <<" "," ","F","i","r","s","t"," ","3"," ","b","y","t","e","s",":"," ">>
        \o str(n)
First4Line(n) ==
    <<" "," ","F","i","r","s","t"," ","4"," ","b","y","t","e","s",":"," ">>
        \o str(n)
First8Line(n) ==
    <<" "," ","F","i","r","s","t"," ","8"," ","b","y","t","e","s",":"," ">>
        \o str(n)
\* print() with no argument
BlankLine == <<>>

----------------------------------------------------------------------------
(* Inputs.  The script's list is a literal; the model runs the loop on     *)
(* every list of Inputs.                                                   *)

\* characters written over one position of a hash
MutChars == {"f", "A", "g", " ", "_", "-", "+", "x", ArabicThree, EAcute}

\* the first n characters of an embedded hash, untouched or with one
\* position overwritten
Strings ==
    {Prefix(EmbeddedHashes[b], n) : b \in 1..3, n \in 0..MaxLen}
    \cup
    UNION {{[Prefix(EmbeddedHashes[b], n) EXCEPT ![p] = c] : p \in 1..n} :
           b \in 1..3, n \in 0..MaxLen, c \in MutChars}

\* the entries of the longer lists: two embedded hashes, "00000g..." whose
\* first slice fails, a hash whose h[:6] alone fails and a hash with a
\* minus sign
ListPool ==
    {Hash1, Hash2,
     [Hash1 EXCEPT ![6] = "g"],
     [Hash3 EXCEPT ![6] = "_"],
     [Hash3 EXCEPT ![1] = "-"]}

Lists == UNION {[1..n -> ListPool] : n \in 0..MaxList}

Inputs == Lists \cup {<<s>> : s \in Strings}

----------------------------------------------------------------------------
(* The script.                                                             *)

\* a name not bound yet
Unbound == [unbound |-> TRUE]

Init ==
    /\ hashes \in Inputs
    /\ idx = 0
    /\ h = Unbound
    /\ first_8 = Unbound
    /\ first_4 = Unbound
    /\ first_3 = Unbound
    /\ out = <<>>
    /\ pc = "for"

\* print(line)
print(line) == out' = Append(out, line)

\* For over reversed(hashes)
ForReversed ==
    /\ pc = "for"
    /\ IF idx < Len(hashes)
       THEN /\ idx' = idx + 1
            /\ h' = hashes[Len(hashes) - idx]
            /\ pc' = "first_8"
       ELSE /\ pc' = "done"
            /\ UNCHANGED <<idx, h>>
    /\ UNCHANGED <<hashes, first_8, first_4, first_3, out>>

\* for h in hashes: bind the next entry, or leave the loop and exit
For ==
    /\ pc = "for"
    /\ IF idx < Len(hashes)
       THEN /\ idx' = idx + 1
            /\ h' = hashes[idx + 1]
            /\ pc' = "first_8"
       ELSE /\ pc' = "done"
            /\ UNCHANGED <<idx, h>>
    /\ UNCHANGED <<hashes, first_8, first_4, first_3, out>>

\* AssignFirst8 inside try/except with continue: a bad entry is skipped
AssignFirst8Skip ==
    /\ pc = "first_8"
    /\ LET r == int(Prefix(h, Slice8), Base)
       IN  IF r.ok
           THEN first_8' = r.val /\ pc' = "first_4"
           ELSE pc' = "for" /\ UNCHANGED first_8
    /\ UNCHANGED <<hashes, idx, h, first_4, first_3, out>>

\* first_8 = int(h[:16], 16); an uncaught ValueError ends the script
AssignFirst8 ==
    /\ pc = "first_8"
    /\ LET r == int(Prefix(h, Slice8), Base)
       IN  IF r.ok
           THEN first_8' = r.val /\ pc' = "first_4"
           ELSE pc' = "raised" /\ UNCHANGED first_8
    /\ UNCHANGED <<hashes, idx, h, first_4, first_3, out>>

\* AssignFirst4 with the slice of first_3: first_4 = int(h[:6], 16)
AssignFirst4Slice3 ==
    /\ pc = "first_4"
    /\ LET r == int(Prefix(h, Slice3), Base)
       IN  IF r.ok
           THEN first_4' = r.val /\ pc' = "first_3"
           ELSE pc' = "raised" /\ UNCHANGED first_4
    /\ UNCHANGED <<hashes, idx, h, first_8, first_3, out>>

\* first_4 = int(h[:8], 16)
AssignFirst4 ==
    /\ pc = "first_4"
    /\ LET r == int(Prefix(h, Slice4), Base)
       IN  IF r.ok
           THEN first_4' = r.val /\ pc' = "first_3"
           ELSE pc' = "raised" /\ UNCHANGED first_4
    /\ UNCHANGED <<hashes, idx, h, first_8, first_3, out>>

\* AssignFirst3 as first_3 = int(h[:6], 16) or first_3: a zero result
\* keeps the value of the entry before
AssignFirst3OrOld ==
    /\ pc = "first_3"
    /\ LET r == int(Prefix(h, Slice3), Base)
       IN  IF r.ok
           THEN /\ first_3' = IF r.val = Zero /\ idx > 1 THEN first_3
                              ELSE r.val
                /\ pc' = "print_hash"
           ELSE pc' = "raised" /\ UNCHANGED first_3
    /\ UNCHANGED <<hashes, idx, h, first_8, first_4, out>>

\* first_3 = int(h[:6], 16)
AssignFirst3 ==
    /\ pc = "first_3"
    /\ LET r == int(Prefix(h, Slice3), Base)
       IN  IF r.ok
           THEN first_3' = r.val /\ pc' = "print_hash"
           ELSE pc' = "raised" /\ UNCHANGED first_3
    /\ UNCHANGED <<hashes, idx, h, first_8, first_4, out>>

\* print(f"Hash: {h}")
PrintHash ==
    /\ pc = "print_hash"
    /\ print(HashLine(h))
    /\ pc' = "print_3"
    /\ UNCHANGED <<hashes, idx, h, first_8, first_4, first_3>>

\* print(f"  First 3 bytes: {first_3}")
PrintFirst3 ==
    /\ pc = "print_3"
    /\ print(First3Line(first_3))
    /\ pc' = "print_4"
    /\ UNCHANGED <<hashes, idx, h, first_8, first_4, first_3>>

\* PrintFirst4 printing first_8
PrintFirst4Of8 ==
    /\ pc = "print_4"
    /\ print(First4Line(first_8))
    /\ pc' = "print_8"
    /\ UNCHANGED <<hashes, idx, h, first_8, first_4, first_3>>

\* print(f"  First 4 bytes: {first_4}")
PrintFirst4 ==
    /\ pc = "print_4"
    /\ print(First4Line(first_4))
    /\ pc' = "print_8"
    /\ UNCHANGED <<hashes, idx, h, first_8, first_4, first_3>>

\* print(f"  First 8 bytes: {first_8}")
PrintFirst8 ==
    /\ pc = "print_8"
    /\ print(First8Line(first_8))
    /\ pc' = "print_blank"
    /\ UNCHANGED <<hashes, idx, h, first_8, first_4, first_3>>

\* print(), then back to the loop header
PrintBlank ==
    /\ pc = "print_blank"
    /\ print(BlankLine)
    /\ pc' = "for"
    /\ UNCHANGED <<hashes, idx, h, first_8, first_4, first_3>>

Next ==
    \/ For
    \/ AssignFirst8
    \/ AssignFirst4
    \/ AssignFirst3
    \/ PrintHash
    \/ PrintFirst3
    \/ PrintFirst4
    \/ PrintFirst8
    \/ PrintBlank

Spec == Init /\ [][Next]_vars

----------------------------------------------------------------------------
(* Vocabulary of the properties.                                           *)

\* the hexadecimal alphabet [0-9a-fA-F]
HexLower == <<"0","1","2","3","4","5","6","7","8","9",
              "a","b","c","d","e","f">>
HexUpper == <<"0","1","2","3","4","5","6","7","8","9",
              "A","B","C","D","E","F">>
HexChars == {HexLower[i] : i \in 1..16} \cup {HexUpper[i] : i \in 1..16}

IsHexString(s) == \A i \in 1..Len(s) : s[i] \in HexChars

\* the value of one hexadecimal character
HexValue(c) ==
    IF Occurs(HexLower, c) THEN IndexOf(HexLower, c) - 1
    ELSE IndexOf(HexUpper, c) - 1

\* the positional sum of a hexadecimal string: the digit e places from
\* the right counts HexValue * 16^e; a limb holds four places
PositionalSum(s) ==
    LET n == Len(s)
        D(e) == IF e < n THEN HexValue(s[n - e]) ELSE 0
    IN  [neg |-> FALSE,
         mag |-> Norm([k \in 1..((n + 3) \div 4) |->
                         D(4*k - 4) + 16 * D(4*k - 3)
                         + 256 * D(4*k - 2) + 4096 * D(4*k - 1)])]

\* n >> bits for a non-negative n
ShiftRight(n, bits) ==
    LET drop == bits \div 16
        rest == IF drop >= Len(n.mag) THEN <<>>
                ELSE SubSeq(n.mag, drop + 1, Len(n.mag))
    IN  [neg |-> FALSE, mag |-> DivMod(rest, 2^(bits % 16)).q]

\* the entry h is bound and its three values are assigned
Decoded ==
    pc \in {"print_hash", "print_3", "print_4", "print_8", "print_blank"}

\* the decode step of the entry h has ended, with its values or by raising
DecodeEnded == Decoded \/ pc = "raised"

----------------------------------------------------------------------------
(* C1: for every string h of hexadecimal characters with at least 16       *)
(* characters, first_3, first_4 and first_8 are the positional base-16     *)
(* values of the first 6, 8 and 16 characters of h.                        *)
C1_PrefixValues ==
    (Decoded /\ IsHexString(h) /\ Len(h) >= 16) =>
        /\ first_3 = PositionalSum(SubSeq(h, 1, 6))
        /\ first_4 = PositionalSum(SubSeq(h, 1, 8))
        /\ first_8 = PositionalSum(SubSeq(h, 1, 16))

\* a hexadecimal string of 16 or more characters is decoded, with an
\* upper-case digit in it and a first_8 of four limbs
C1_Witness ==
    /\ Decoded /\ IsHexString(h) /\ Len(h) >= 16
    /\ \E i \in 1..Len(h) : h[i] = "A"
    /\ Len(first_8.mag) = 4
    /\ first_3 # Zero

(* C2: for every valid HashString h (hexadecimal characters, at least 16   *)
(* of them as the data model expects) first_4 >> 8 = first_3 and           *)
(* first_8 >> 32 = first_4.                                                *)
C2_Nesting ==
    (Decoded /\ IsHexString(h) /\ Len(h) >= 16) =>
        /\ ShiftRight(first_4, 8) = first_3
        /\ ShiftRight(first_8, 32) = first_4

\* a valid hash is decoded and its three values differ from each other
C2_Witness ==
    /\ Decoded /\ IsHexString(h) /\ Len(h) >= 16
    /\ first_3 # Zero /\ first_3 # first_4 /\ first_4 # first_8

(* C3 as stated: decoding h raises exactly when h holds a character        *)
(* outside [0-9a-fA-F].                                                    *)
C3_RaisesIffNonHex ==
    DecodeEnded => ((pc = "raised") <=> ~IsHexString(h))

\* characters outside the hexadecimal alphabet that int(s, 16) takes in
\* some position: white space, a sign, an underscore, the x of 0x, a
\* decimal digit outside ASCII
Tolerated == WhiteSpace \cup {"+", "-", "_", "x", "X", ArabicThree}

(* C3 amended: decoding h raises when h is empty or one of its first 16    *)
(* characters is neither a hexadecimal digit nor a character int           *)
(* tolerates, and does not raise when h is not empty and each of its       *)
(* first 16 characters is a hexadecimal digit.                             *)
C3_RaisesOnFirst16 ==
    DecodeEnded =>
        LET head == Prefix(h, Slice8) IN
        /\ (h = <<>> \/ \E i \in 1..Len(head) :
                            head[i] \notin HexChars \cup Tolerated)
             => pc = "raised"
        /\ (h # <<>> /\ IsHexString(head)) => pc # "raised"

\* a string with g among its first 16 characters has raised
C3_Witness ==
    /\ pc = "raised"
    /\ \E i \in 1..Len(h) : i <= 16 /\ h[i] = "g"

----------------------------------------------------------------------------
(* The output expected of a list.                                          *)

\* some slice of s fails to parse
DecodeFails(s) ==
    \/ ~int(Prefix(s, Slice8), Base).ok
    \/ ~int(Prefix(s, Slice4), Base).ok
    \/ ~int(Prefix(s, Slice3), Base).ok

\* the index of the first entry whose decoding fails, 0 when none does
RECURSIVE FirstBadFrom(_)
FirstBadFrom(i) ==
    IF i > Len(hashes) THEN 0
    ELSE IF DecodeFails(hashes[i]) THEN i
    ELSE FirstBadFrom(i + 1)
FirstBad == FirstBadFrom(1)

\* the five lines of the entry s
Block(s) ==
    <<HashLine(s),
      First3Line(int(Prefix(s, Slice3), Base).val),
      First4Line(int(Prefix(s, Slice4), Base).val),
      First8Line(int(Prefix(s, Slice8), Base).val),
      BlankLine>>

\* the blocks of the first n entries, one after the other
RECURSIVE Blocks(_)
Blocks(n) == IF n = 0 THEN <<>> ELSE Blocks(n - 1) \o Block(hashes[n])

\* the entries whose five lines are all printed
Complete == IF pc \in {"for", "done"} THEN idx ELSE idx - 1

\* the lines printed so far of the entry in progress
Partial ==
    CASE pc = "print_3" -> 1
      [] pc = "print_4" -> 2
      [] pc = "print_8" -> 3
      [] pc = "print_blank" -> 4
      [] OTHER -> 0

\* the hash strings of the printed Hash lines, in print order
IsHashLine(l) == Len(l) >= 6 /\ SubSeq(l, 1, 6) = HashLine(<<>>)
PrintedHashes ==
    LET ls == SelectSeq(out, IsHashLine)
    IN  [k \in 1..Len(ls) |-> SubSeq(ls[k], 7, Len(ls[k]))]

\* the integer a decimal text denotes
RECURSIVE DecimalMag(_)
DecimalMag(ds) ==
    IF ds = <<>> THEN <<>>
    ELSE MulAdd(DecimalMag(SubSeq(ds, 1, Len(ds) - 1)), 10,
                IndexOf(DecDigits, ds[Len(ds)]) - 1)
DecimalValue(ds) ==
    IF ds # <<>> /\ ds[1] = "-" THEN MkInt(TRUE, DecimalMag(Tail(ds)))
    ELSE MkInt(FALSE, DecimalMag(ds))

\* the text after the 17-character label of a value line
ValueText(l) == SubSeq(l, 18, Len(l))

----------------------------------------------------------------------------
(* C4: when entry i is the first whose decoding fails, the script halts    *)
(* at entry i having printed exactly the blocks of the entries before it:  *)
(* no line of entry i or of a later entry is ever printed, and the loop    *)
(* never runs to its end.                                                  *)
C4_AbortAtFirstBad ==
    LET i == FirstBad IN
    /\ i # 0 =>
          /\ Len(out) <= 5 * (i - 1)
          /\ idx <= i
          /\ pc # "done"
    /\ pc = "raised" =>
          /\ idx = i
          /\ out = Blocks(i - 1)
          /\ ~ENABLED Next

\* the script has raised at its third entry after two printed blocks
C4_Witness ==
    /\ pc = "raised" /\ idx = 3 /\ Len(hashes) = 3
    /\ Len(out) = 10

(* C5: the k-th printed block is the block of the k-th entry, and the      *)
(* printed Hash lines are always the entries processed so far in list      *)
(* order; at the end of a run without failure they are the whole list.     *)
C5_OrderPreserved ==
    /\ PrintedHashes = SubSeq(hashes, 1, Len(PrintedHashes))
    /\ Len(PrintedHashes) = Complete + (IF Partial > 0 THEN 1 ELSE 0)
    /\ \A k \in 1..Len(PrintedHashes) : out[5*k - 4] = HashLine(hashes[k])
    /\ pc = "done" => PrintedHashes = hashes

\* a list of three different entries is printed to the end
C5_Witness ==
    /\ pc = "done" /\ Len(hashes) = 3
    /\ hashes[1] # hashes[2] /\ hashes[2] # hashes[3]
    /\ hashes[1] # hashes[3]
    /\ Len(PrintedHashes) = 3

(* C6 as stated: 16 hexadecimal characters decode from the full 6, 8 and   *)
(* 16 characters, and every hexadecimal string of fewer than 16            *)
(* characters decodes without raising, first_8 (and first_4 below 8,       *)
(* first_3 below 6 characters) being the value of the whole string.        *)
C6_ShortNeverRaises ==
    (DecodeEnded /\ IsHexString(h)) =>
        /\ Len(h) = 16 =>
              /\ pc # "raised"
              /\ first_3 = PositionalSum(SubSeq(h, 1, 6))
              /\ first_4 = PositionalSum(SubSeq(h, 1, 8))
              /\ first_8 = PositionalSum(h)
        /\ Len(h) < 16 =>
              /\ pc # "raised"
              /\ first_8 = PositionalSum(h)
              /\ Len(h) < 8 => first_4 = PositionalSum(h)
              /\ Len(h) < 6 => first_3 = PositionalSum(h)

(* C6 amended: as stated for the strings of 1 to 15 hexadecimal            *)
(* characters; the empty string raises.                                    *)
C6_ShortNonEmpty ==
    (DecodeEnded /\ IsHexString(h)) =>
        /\ Len(h) = 16 =>
              /\ pc # "raised"
              /\ first_3 = PositionalSum(SubSeq(h, 1, 6))
              /\ first_4 = PositionalSum(SubSeq(h, 1, 8))
              /\ first_8 = PositionalSum(h)
        /\ Len(h) \in 1..15 =>
              /\ pc # "raised"
              /\ first_8 = PositionalSum(h)
              /\ Len(h) < 8 => first_4 = PositionalSum(h)
              /\ Len(h) < 6 => first_3 = PositionalSum(h)
        /\ Len(h) = 0 => pc = "raised"

\* a 15-character hexadecimal string is decoded with its first_8 below
\* 16^15 and different from first_4
C6_Witness ==
    /\ Decoded /\ IsHexString(h) /\ Len(h) = 15
    /\ first_8 # first_4 /\ first_8 # Zero

(* C7 as stated: the first embedded hash gives first_3 = 0, first_4 = 108  *)
(* and first_8 = 108000198740846336.                                       *)
C7_StatedValues ==
    (Decoded /\ h = Hash1) =>
        /\ str(first_3) = <<"0">>
        /\ str(first_4) = <<"1","0","8">>
        /\ str(first_8) = <<"1","0","8","0","0","0","1","9","8",
                            "7","4","0","8","4","6","3","3","6">>

(* C7 amended: the first embedded hash gives first_3 = 0, first_4 = 108    *)
(* and first_8 = 464833963264, the value of 0x0000006c3a436500.            *)
C7_FirstHashValues ==
    (Decoded /\ h = Hash1) =>
        /\ str(first_3) = <<"0">>
        /\ str(first_4) = <<"1","0","8">>
        /\ str(first_8) = <<"4","6","4","8","3","3","9","6","3","2","6","4">>
        /\ first_8 = PositionalSum(SubSeq(Hash1, 1, 16))

\* the first embedded hash is decoded
C7_Witness == pc = "print_blank" /\ h = Hash1 /\ hashes = <<Hash1>>

(* C8 as stated: whenever decoding completes without raising, first_3,     *)
(* first_4 and first_8 are non-negative.                                   *)
C8_NeverNegative ==
    Decoded => (~first_3.neg /\ ~first_4.neg /\ ~first_8.neg)

(* C8 amended: whenever decoding completes without raising on a string     *)
(* with no minus sign among its first 16 characters, first_3, first_4 and  *)
(* first_8 are non-negative.                                               *)
C8_NonNegativeWithoutMinus ==
    (Decoded /\ \A i \in 1..Len(Prefix(h, Slice8)) : h[i] # "-") =>
        (~first_3.neg /\ ~first_4.neg /\ ~first_8.neg)

\* a string with a plus sign is decoded to three values above zero
C8_Witness ==
    /\ Decoded /\ h[1] = "+"
    /\ first_3 # Zero /\ first_4 # Zero /\ first_8 # Zero

(* C9: an entry equal to an earlier entry of the list decodes to the       *)
(* values printed for the earlier one, whatever was decoded in between:    *)
(* the values depend on h alone.                                           *)
C9_Deterministic ==
    Decoded =>
        \A j \in 1..(idx - 1) :
            hashes[j] = h =>
                /\ out[5*j - 3] = First3Line(first_3)
                /\ out[5*j - 2] = First4Line(first_4)
                /\ out[5*j - 1] = First8Line(first_8)

\* the third entry repeats the first, after a different second entry
C9_Witness ==
    /\ Decoded /\ idx = 3
    /\ hashes[1] = h /\ hashes[2] # h
    /\ first_3 # int(Prefix(hashes[2], Slice3), Base).val

(* C10: every decoded entry is printed as five lines in this order: the    *)
(* Hash line with the hash unmodified, the First 3, First 4 and First 8    *)
(* bytes lines with the values decoded from that hash, a blank line; the   *)
(* blocks follow each other with nothing in between.                       *)
C10_BlockFormat ==
    /\ Len(out) = 5 * Complete + Partial
    /\ \A k \in 1..Complete :
          /\ SubSeq(out, 5*k - 4, 5*k) = Block(hashes[k])
          /\ out[5*k - 4] = HashLine(hashes[k])
          /\ out[5*k] = <<>>
          /\ DecimalValue(ValueText(out[5*k - 3]))
                = int(Prefix(hashes[k], Slice3), Base).val
          /\ DecimalValue(ValueText(out[5*k - 2]))
                = int(Prefix(hashes[k], Slice4), Base).val
          /\ DecimalValue(ValueText(out[5*k - 1]))
                = int(Prefix(hashes[k], Slice8), Base).val
    /\ Partial > 0 =>
          SubSeq(out, 5 * Complete + 1, 5 * Complete + Partial)
              = SubSeq(Block(h), 1, Partial)

\* two blocks are printed and the second holds a negative value
C10_Witness ==
    /\ pc = "done" /\ Len(out) = 10
    /\ first_4.neg

====
